---- MODULE Spec2Model ----
(***************************************************************************)
(* Session manager of the trivia server (manager.go): the lobby registry,  *)
(* the lobby game-state machine, login, websocket admission with its       *)
(* catch-up sends, and the client registry of each lobby.                  *)
(*                                                                         *)
(* HTTP handlers run one goroutine per request and manager.go takes the    *)
(* lobby lock only inside addClient/removeClient, so every handler is      *)
(* split at each access to shared state; the program counter of a request  *)
(* names the source line it is about to execute.                           *)
(***************************************************************************)
EXTENDS Integers, Sequences, FiniteSets, TLC

\* ------------------------------------------------------------------ bounds
MaxLobbies  == 1      \* lobbies createLobbyHandler may register
MaxLogins   == 2      \* login requests over a run (each may issue one OTP)
MaxConns    == 2      \* connection-upgrade requests over a run
MaxInFlight == 2      \* handlers running concurrently

\* --------------------------------------------------------------- constants
WaitingForPlayers == "waiting"
InPlay            == "playing"
Finished          == "finished"
DNE               == "dne"

EventNewMember  == "new_member"
EventStartGame  == "start_game"
EventNewProblem == "new_problem"

EventGameOver   == "game_over"

EventStartGameOwner == "start_game_owner"
EventGiveAnswer     == "give_answer"
EventRequestProblem == "request_problem"

ErrEventNotSupported == "this event type is not supported"
ErrNotOwner          == "NotOwner"

EgressCap == 1        \* capacity of a client's egress queue

NumProblems == 2      \* length of the lobby's problem sequence

Nil == "nil"

LobbyIds  == 1..MaxLobbies
\* the ids a request may name: 0 is an id the registry never holds
RequestIds == 0..MaxLobbies
Usernames == {"alice", "bob"}
Passwords == {"pw1", "pw2"}
LoginIds  == 1..MaxLogins
ConnIds   == 1..MaxConns
\* an OTP is named by the login that obtained it; 0 is the empty string
Otps      == 0..MaxLogins

\* ------------------------------------------------------------------- state
VARIABLES
    lobbies,     \* Manager.lobbies: lobby id -> Lobby
    logins,      \* loginHandler invocations: request id -> locals and pc
    conns,       \* serveWS invocations: request id -> locals and pc
    clients,     \* Client objects, named by the serveWS request that made them
    connection,  \* websocket transport of each client: "none"/"open"/"closed"
    panicked,    \* an unrecovered panic has aborted the process
    routed,      \* the last routeEvent call: its event, handler and result
    polled,      \* the last lobbyStatus call: its request and response
    inserting    \* ids whose assignment into Manager.lobbies is under way

vars ==
    <<lobbies, logins, conns, clients, connection, panicked, routed, polled,
      inserting>>

\* ------------------------------------------------------------ pure helpers
HashPassword(password) == <<"hash", password>>

CheckPasswordHash(password, hash) == hash = HashPassword(password)

NewUser(hash) == [password |-> hash, questionNumber |-> 0, score |-> 0]

NewLobby ==
    [ gameState   |-> WaitingForPlayers,
      owner       |-> Nil,
      startTime   |-> Nil,
      userMapping |-> <<>>,     \* username -> User
      otpMapping  |-> <<>>,     \* otp -> username
      otps        |-> <<>>,     \* RetentionMap: the OTPs it retains
      clients     |-> {} ]

IdleLogin ==
    [ pc |-> "idle", lobbyId |-> 0, username |-> Nil, password |-> Nil,
      userExists |-> FALSE, user |-> Nil, status |-> 0, wrote |-> FALSE ]

IdleConn ==
    [ pc |-> "idle", lobbyId |-> 0, otp |-> 0, status |-> 0,
      snap |-> {}, visited |-> {}, cur |-> 0, sent |-> <<>> ]

Event(type, payload) == [type |-> type, payload |-> payload]

\* A handler that has returned keeps the request it served and its answer.
Returned(q) == [IdleConn EXCEPT !.pc = "done", !.lobbyId = q.lobbyId,
                                !.otp = q.otp, !.status = q.status]

\* No status has been asked for yet.
NoPoll == [id |-> 0, record |-> FALSE, status |-> Nil]

\* No event has been routed yet.
NoRoute == [client |-> 0, type |-> Nil, handler |-> Nil, herr |-> Nil, err |-> Nil]

InFlight ==
    Cardinality({r \in LoginIds : logins[r].pc \notin {"idle", "done"}})
    + Cardinality({r \in ConnIds : conns[r].pc \notin {"idle", "done"}})

Init ==
    /\ lobbies = <<>>
    /\ logins = [r \in LoginIds |-> IdleLogin]
    /\ conns = [r \in ConnIds |-> IdleConn]
    /\ clients = <<>>
    /\ connection = [c \in ConnIds |-> "none"]
    /\ panicked = FALSE
    /\ routed = NoRoute
    /\ polled = NoPoll
    /\ inserting = {}

\* ----------------------------------------------------- game state machine
startGameBad(lobby) ==
    [panic |-> FALSE, lobby |-> [lobby EXCEPT !.gameState = InPlay]]

\* Lobby.startGame: panics unless the lobby is waiting for players.
startGame(lobby) ==
    IF lobby.gameState # WaitingForPlayers
    THEN [panic |-> TRUE, lobby |-> lobby]
    ELSE [panic |-> FALSE, lobby |-> [lobby EXCEPT !.gameState = InPlay]]

\* Lobby.endGame: panics unless the game is in play.
endGame(lobby) ==
    IF lobby.gameState # InPlay
    THEN [panic |-> TRUE, lobby |-> lobby]
    ELSE [panic |-> FALSE, lobby |-> [lobby EXCEPT !.gameState = Finished]]

\* An unrecovered panic ends the process: its lobbies, requests and
\* connections are gone.
Abort ==
    /\ panicked' = TRUE
    /\ lobbies' = <<>>
    /\ logins' = [r \in LoginIds |-> IdleLogin]
    /\ conns' = [r \in ConnIds |-> IdleConn]
    /\ clients' = <<>>
    /\ connection' = [c \in ConnIds |-> "none"]
    /\ routed' = NoRoute
    /\ polled' = NoPoll
    /\ inserting' = {}

\* endGame() is called on a registered lobby.
EndGame ==
    /\ ~panicked
    /\ \E l \in DOMAIN lobbies :
          LET res == endGame(lobbies[l]) IN
          IF res.panic
          THEN Abort
          ELSE /\ lobbies' = [lobbies EXCEPT ![l] = res.lobby]
               /\ UNCHANGED <<logins, conns, clients, connection, panicked, routed, polled, inserting>>

\* ------------------------------------------------------- lobby registry
\* An access to Manager.lobbies while an assignment into it is under way is
\* a data race: the access may go through, or the runtime may end the
\* process (fatal error: concurrent map read and map write).
RacyAccess == inserting # {}

\* createLobbyHandler 391-392: uuid.New() is an id the registry has never
\* held; the assignment m.lobbies[id] = NewLobby(...) begins. Manager.lobbies
\* is a plain map and no handler takes a lock around it.
createLobbyHandler ==
    /\ ~panicked
    /\ \E id \in LobbyIds \ (DOMAIN lobbies \cup inserting) :
          \/ /\ inserting' = inserting \cup {id}
             /\ UNCHANGED <<lobbies, logins, conns, clients, connection, panicked,
                            routed, polled>>
          \/ RacyAccess /\ Abort

\* The assignment is complete: the lobby is in the registry.
createLobbyInsert ==
    /\ ~panicked
    /\ \E id \in inserting :
          /\ lobbies' = (id :> NewLobby) @@ lobbies
          /\ inserting' = inserting \ {id}
    /\ UNCHANGED <<logins, conns, clients, connection, panicked, routed, polled>>

\* The id of a request whose result file name is longer than a file name
\* may be.
LongId == MaxLobbies + 1

StatusIds == RequestIds \cup {LongId}

\* os.Stat of the result file of id: nil when the record exists, ErrNotExist
\* when it does not, another error when the name cannot be looked up.
Stat(id, record) ==
    IF id = LongId THEN "ENAMETOOLONG"
    ELSE IF record THEN Nil ELSE "ErrNotExist"

\* lobbyStatus 349-376: the status the request is answered with.
lobbyStatus(id, record) ==
    IF id \notin DOMAIN lobbies
    THEN IF Stat(id, record) = "ErrNotExist" THEN DNE ELSE Finished
    ELSE lobbies[id].gameState

\* Manager.lobbyStatus: a status request for id; record says whether a
\* result record of id exists.
LobbyStatus ==
    /\ ~panicked
    /\ \/ /\ \E id \in StatusIds, record \in BOOLEAN :
                /\ id = LongId => ~record
                /\ polled' = [id |-> id, record |-> record,
                              status |-> lobbyStatus(id, record)]
          /\ UNCHANGED <<lobbies, logins, conns, clients, connection, panicked,
                         routed, inserting>>
       \/ RacyAccess /\ Abort

\* startGame() is called on a registered lobby.
StartGame ==
    /\ ~panicked
    /\ \E l \in DOMAIN lobbies :
          LET res == startGame(lobbies[l]) IN
          IF res.panic
          THEN Abort
          ELSE /\ lobbies' = [lobbies EXCEPT ![l] = res.lobby]
               /\ UNCHANGED <<logins, conns, clients, connection, panicked,
                              routed, polled, inserting>>

\* ------------------------------------------------------------------- login
\* loginHandler 184-203: the lobby lookup and the read of userMapping.
loginLookup(r, l, u, p) ==
    IF l \notin DOMAIN lobbies
    THEN logins' = [logins EXCEPT ![r] =
             [IdleLogin EXCEPT !.pc = "done", !.lobbyId = l, !.username = u,
                               !.password = p, !.status = 404]]
    ELSE LET userExists == u \in DOMAIN lobbies[l].userMapping
             user == IF userExists THEN lobbies[l].userMapping[u]
                     ELSE NewUser(HashPassword(p))
         IN  logins' = [logins EXCEPT ![r] =
                 [IdleLogin EXCEPT !.pc = IF userExists THEN "check" ELSE "store",
                                   !.lobbyId = l, !.username = u, !.password = p,
                                   !.userExists = userExists, !.user = user]]

LoginStart(r) ==
    /\ ~panicked
    /\ logins[r].pc = "idle"
    /\ r > 1 => logins[r - 1].pc # "idle"
    /\ InFlight < MaxInFlight
    /\ \/ /\ \E l \in RequestIds, u \in Usernames, p \in Passwords :
                  loginLookup(r, l, u, p)
          /\ UNCHANGED <<lobbies, conns, clients, connection, panicked, routed,
                         polled, inserting>>
       \/ RacyAccess /\ Abort

\* loginHandler 202: lobby.userMapping[req.Username] = user
LoginStore(r) ==
    /\ ~panicked
    /\ logins[r].pc = "store"
    /\ LET q == logins[r] IN
       lobbies' = [lobbies EXCEPT ![q.lobbyId].userMapping = (q.username :> q.user) @@ @]
    /\ logins' = [logins EXCEPT ![r].pc = "check", ![r].wrote = TRUE]
    /\ UNCHANGED <<conns, clients, connection, panicked, routed, polled, inserting>>

loginCheckBad(r) ==
    LET q == logins[r] IN
    /\ lobbies' = IF lobbies[q.lobbyId].owner = Nil
                  THEN [lobbies EXCEPT ![q.lobbyId].owner = q.username]
                  ELSE lobbies
    /\ IF CheckPasswordHash(q.password, q.user.password)
       THEN logins' = [logins EXCEPT ![r].pc = "issue"]
       ELSE logins' = [logins EXCEPT ![r].pc = "done", ![r].status = 401]

\* loginHandler 206-208 and 238: the password check and the read of the owner.
loginCheck(r) ==
    LET q == logins[r] IN
    /\ UNCHANGED lobbies
    /\ IF CheckPasswordHash(q.password, q.user.password)
       THEN logins' = [logins EXCEPT ![r].pc =
                IF lobbies[q.lobbyId].owner = Nil THEN "setOwner" ELSE "issue"]
       ELSE logins' = [logins EXCEPT ![r].pc = "done", ![r].status = 401]

LoginCheck(r) ==
    /\ ~panicked
    /\ logins[r].pc = "check"
    /\ loginCheck(r)
    /\ UNCHANGED <<conns, clients, connection, panicked, routed, polled, inserting>>

\* loginHandler 209: lobby.owner = &req.Username
LoginSetOwner(r) ==
    /\ ~panicked
    /\ logins[r].pc = "setOwner"
    /\ lobbies' = [lobbies EXCEPT ![logins[r].lobbyId].owner = logins[r].username]
    /\ logins' = [logins EXCEPT ![r].pc = "issue", ![r].wrote = TRUE]
    /\ UNCHANGED <<conns, clients, connection, panicked, routed, polled, inserting>>

\* RetentionMap.NewOTP: a fresh key, recorded with its creation time.
NewOTP(otps, key) == (key :> TRUE) @@ otps

\* loginHandler 213-234: the OTP is issued, bound to the username and returned.
LoginIssue(r) ==
    /\ ~panicked
    /\ logins[r].pc = "issue"
    /\ LET q == logins[r] IN
       lobbies' = [lobbies EXCEPT
           ![q.lobbyId].otps = NewOTP(@, r),
           ![q.lobbyId].otpMapping = (r :> q.username) @@ @]
    /\ logins' = [logins EXCEPT ![r].pc = "done", ![r].status = 200, ![r].wrote = TRUE]
    /\ UNCHANGED <<conns, clients, connection, panicked, routed, polled, inserting>>

\* RetentionMap's periodic sweep drops an OTP whose age has reached the
\* retention period.
Retention ==
    /\ ~panicked
    /\ \E l \in DOMAIN lobbies : \E t \in DOMAIN lobbies[l].otps :
          lobbies' = [lobbies EXCEPT ![l].otps = [k \in DOMAIN @ \ {t} |-> @[k]]]
    /\ UNCHANGED <<logins, conns, clients, connection, panicked, routed, polled, inserting>>

\* --------------------------------------------------------------- admission
\* RetentionMap.VerifyOTP: the key is present (issued, not yet verified, not
\* yet dropped by the sweep).
VerifyOTP(otps, key) == key \in DOMAIN otps

\* A verified key is removed from the RetentionMap by the verification.
ConsumeOTP(otps, key) == [t \in DOMAIN otps \ {key} |-> otps[t]]

\* NewClient: the client's name is the username its OTP is bound to.
NewClient(l, otp) ==
    [ name   |-> IF otp \in DOMAIN lobbies[l].otpMapping
                 THEN lobbies[l].otpMapping[otp] ELSE "",
      lobby  |-> l,
      otp    |-> otp,
      egress |-> <<>>,
      pump   |-> "run",      \* both tasks run; "start"/"problem"/"reply": the
                             \* inbound task is in a handler; "dead": one task
                             \* has torn the client down; "gone": both ended
      todo   |-> {},
      tgt    |-> 0,
      starts |-> 0 ]         \* start-game events sent to this client so far

admissionCheckBad(l, otp) ==
    IF l \notin DOMAIN lobbies THEN 401
    ELSE IF lobbies[l].gameState = Finished THEN 410
    ELSE IF otp = 0 THEN 401
    ELSE 0

\* serveWS 245-261: the status the request is refused with, 0 when it goes on.
admissionCheck(l, otp) ==
    IF otp = 0 THEN 401
    ELSE IF l \notin DOMAIN lobbies THEN 401
    ELSE IF lobbies[l].gameState = Finished THEN 410
    ELSE 0

WsStart(r) ==
    /\ ~panicked
    /\ conns[r].pc = "idle"
    /\ r > 1 => conns[r - 1].pc # "idle"
    /\ InFlight < MaxInFlight
    /\ \/ /\ \E l \in RequestIds, otp \in Otps :
                LET status == admissionCheck(l, otp) IN
                conns' = [conns EXCEPT ![r] =
                    [IdleConn EXCEPT !.pc = IF status = 0 THEN "verify" ELSE "done",
                                     !.lobbyId = l, !.otp = otp, !.status = status]]
          /\ UNCHANGED <<lobbies, logins, clients, connection, panicked, routed,
                         polled, inserting>>
       \/ RacyAccess /\ Abort

serveWSVerifyBad(r, upgraded) ==
    LET q == conns[r] IN
    /\ lobbies' = [lobbies EXCEPT ![q.lobbyId].otps = ConsumeOTP(@, q.otp)]
    /\ IF upgraded
       THEN /\ conns' = [conns EXCEPT ![r].pc = "add", ![r].status = 101]
            /\ connection' = [connection EXCEPT ![r] = "open"]
       ELSE /\ conns' = [conns EXCEPT ![r].pc = "done", ![r].status = 400]
            /\ UNCHANGED connection

\* serveWS 264-275: the OTP is verified, then the request is upgraded.
serveWSVerify(r, upgraded) ==
    LET q == conns[r] IN
    IF ~VerifyOTP(lobbies[q.lobbyId].otps, q.otp)
    THEN /\ conns' = [conns EXCEPT ![r].pc = "done", ![r].status = 401]
         /\ UNCHANGED <<lobbies, connection>>
    ELSE /\ lobbies' = [lobbies EXCEPT ![q.lobbyId].otps = ConsumeOTP(@, q.otp)]
         /\ IF upgraded
            THEN /\ conns' = [conns EXCEPT ![r].pc = "add", ![r].status = 101]
                 /\ connection' = [connection EXCEPT ![r] = "open"]
            ELSE /\ conns' = [conns EXCEPT ![r].pc = "done", ![r].status = 400]
                 /\ UNCHANGED connection

WsVerify(r) ==
    /\ ~panicked
    /\ conns[r].pc = "verify"
    /\ \E upgraded \in BOOLEAN : serveWSVerify(r, upgraded)
    /\ UNCHANGED <<logins, clients, panicked, routed, polled, inserting>>

\* serveWS 296 ranges over lobby.clients without the lobby lock. A write of
\* the map by addClient or removeClient while a range of it is taking its
\* next client is a data race: the write may go through, or the runtime may
\* end the process (fatal error: concurrent map iteration and map write).
RacyRange(l) == \E r \in ConnIds : conns[r].pc = "loop" /\ conns[r].lobbyId = l

\* Lobby.addClient, under the lobby lock: m.clients[client] = true
addClient(lobby, c) == [lobby EXCEPT !.clients = @ \cup {c}]

\* removeClient without its check: it closes and deletes whatever it is given.
removeClientTwice(c) ==
    /\ connection' = [connection EXCEPT ![c] = IF @ = "open" THEN "closed" ELSE "reclosed"]
    /\ lobbies' = [lobbies EXCEPT ![clients[c].lobby].clients = @ \ {c}]

removeClientBad(c) ==
    /\ connection' = [connection EXCEPT ![c] = "closed"]
    /\ UNCHANGED lobbies

\* Lobby.removeClient, under the lobby lock: a registered client has its
\* connection closed and is deleted; any other client is left alone.
removeClient(c) ==
    LET l == clients[c].lobby IN
    IF c \in lobbies[l].clients
    THEN /\ connection' = [connection EXCEPT ![c] = "closed"]
         /\ lobbies' = [lobbies EXCEPT ![l].clients = @ \ {c}]
    ELSE UNCHANGED <<lobbies, connection>>

\* serveWS 278-283: the client is made and registered, its two tasks started.
WsAdd(r) ==
    /\ ~panicked
    /\ conns[r].pc = "add"
    /\ LET q == conns[r] IN
       \/ /\ clients' = (r :> NewClient(q.lobbyId, q.otp)) @@ clients
          /\ lobbies' = [lobbies EXCEPT ![q.lobbyId] = addClient(@, r)]
          /\ conns' = [conns EXCEPT ![r].pc = "catchup"]
          /\ UNCHANGED <<logins, connection, panicked, routed, polled, inserting>>
       \/ RacyRange(q.lobbyId) /\ Abort

\* serveWS 285 and 309: the catch-up is chosen by the game state read now.
WsCatchup(r) ==
    /\ ~panicked
    /\ conns[r].pc = "catchup"
    /\ LET q == conns[r]
           st == lobbies[q.lobbyId].gameState
       IN  conns' = [conns EXCEPT
               ![r].pc = IF st = WaitingForPlayers THEN "loop"
                         ELSE IF st = InPlay THEN "sendStart" ELSE "done",
               ![r].snap = IF st = WaitingForPlayers
                           THEN lobbies[q.lobbyId].clients ELSE {}]
    /\ UNCHANGED <<lobbies, logins, clients, connection, panicked, routed, polled, inserting>>

\* serveWS 296: the next client of the range over lobby.clients. The lobby
\* lock is not held, so the range sees the map as it is now: a client removed
\* before its turn is not visited, one added since the range began may or may
\* not be.
WsLoop(r) ==
    /\ ~panicked
    /\ conns[r].pc = "loop"
    /\ LET q == conns[r]
           rest == lobbies[q.lobbyId].clients \ q.visited
       IN  \/ /\ rest \cap q.snap = {}
              /\ conns' = [conns EXCEPT ![r] = Returned(q)]
           \/ \E c \in rest :
                 conns' = [conns EXCEPT
                     ![r].cur = c,
                     ![r].visited = @ \cup {c},
                     ![r].pc = IF clients[c].name # clients[r].name
                               THEN "sendOther" ELSE "sendSelf"]
    /\ UNCHANGED <<lobbies, logins, clients, connection, panicked, routed, polled, inserting>>

\* c.egress <- event: the send waits while the queue is full.
CanSend(c) == Len(clients[c].egress) < EgressCap

Send(c, event) ==
    [clients EXCEPT ![c].egress = Append(@, event),
                    ![c].starts = IF event.type = EventStartGame THEN @ + 1 ELSE @]

\* serveWS 298: c.egress <- outgoingEvent
WsSendOther(r) ==
    /\ ~panicked
    /\ conns[r].pc = "sendOther"
    /\ LET c == conns[r].cur
           event == Event(EventNewMember, clients[r].name)
       IN  /\ CanSend(c)
           /\ clients' = Send(c, event)
           /\ conns' = [conns EXCEPT ![r].pc = "sendSelf",
                                     ![r].sent = Append(@, <<c, event>>)]
    /\ UNCHANGED <<lobbies, logins, connection, panicked, routed, polled, inserting>>

\* serveWS 300-307: client.egress <- smallOutgoingEvent
WsSendSelf(r) ==
    /\ ~panicked
    /\ conns[r].pc = "sendSelf"
    /\ LET event == Event(EventNewMember, clients[conns[r].cur].name) IN
       /\ CanSend(r)
       /\ clients' = Send(r, event)
       /\ conns' = [conns EXCEPT ![r].pc = "loop",
                                 ![r].sent = Append(@, <<r, event>>)]
    /\ UNCHANGED <<lobbies, logins, connection, panicked, routed, polled, inserting>>

TimeLimit == 600

\* The catch-up with its two events in the wrong order.
WsSendStartBad(r) ==
    /\ ~panicked
    /\ conns[r].pc = "sendStart"
    /\ LET event == Event(EventNewProblem, 0) IN
       /\ CanSend(r)
       /\ clients' = Send(r, event)
       /\ conns' = [conns EXCEPT ![r].pc = "sendProblem",
                                 ![r].sent = Append(@, <<r, event>>)]
    /\ UNCHANGED <<lobbies, logins, connection, panicked, routed, polled, inserting>>

\* serveWS 310-319: a nil startTime panics in the handler's goroutine, which
\* net/http recovers by ending the request.
WsSendStart(r) ==
    /\ ~panicked
    /\ conns[r].pc = "sendStart"
    /\ LET lobby == lobbies[conns[r].lobbyId]
           event == Event(EventStartGame, <<lobby.startTime, TimeLimit>>)
       IN  IF lobby.startTime = Nil
           THEN /\ conns' = [conns EXCEPT ![r] = Returned(conns[r])]
                /\ UNCHANGED clients
           ELSE /\ CanSend(r)
                /\ clients' = Send(r, event)
                /\ conns' = [conns EXCEPT ![r].pc = "sendProblem",
                                          ![r].sent = Append(@, <<r, event>>)]
    /\ UNCHANGED <<lobbies, logins, connection, panicked, routed, polled, inserting>>

\* Client.getNewProblem: the problem at the user's questionNumber.
getNewProblem(c) ==
    LET users == lobbies[clients[c].lobby].userMapping IN
    IF clients[c].name \in DOMAIN users THEN users[clients[c].name].questionNumber ELSE 0

\* serveWS 321-330
WsSendProblem(r) ==
    /\ ~panicked
    /\ conns[r].pc = "sendProblem"
    /\ LET event == Event(EventNewProblem, getNewProblem(r)) IN
       /\ CanSend(r)
       /\ clients' = Send(r, event)
       /\ conns' = [conns EXCEPT ![r] = Returned(conns[r])]
    /\ UNCHANGED <<lobbies, logins, connection, panicked, routed, polled, inserting>>

\* ------------------------------------------------------- connection pump
\* Client.writeMessages: the outbound task takes the next event from egress
\* and writes it to the connection.
writeMessages(c) ==
    /\ ~panicked
    /\ c \in DOMAIN clients
    /\ clients[c].pump \notin {"dead", "gone"}
    /\ clients[c].egress # <<>>
    /\ clients' = [clients EXCEPT ![c].egress = Tail(@)]
    /\ UNCHANGED <<lobbies, logins, conns, connection, panicked, routed, polled, inserting>>

\* Client.readMessages: the read fails (peer closed, transport error); the
\* client is removed and both tasks end.
readMessages(c) ==
    /\ ~panicked
    /\ c \in DOMAIN clients
    /\ clients[c].pump = "run"
    /\ \/ /\ clients' = [clients EXCEPT ![c].pump = "dead"]
          /\ removeClient(c)
          /\ UNCHANGED <<logins, conns, panicked, routed, polled, inserting>>
       \/ RacyRange(clients[c].lobby) /\ Abort

\* The other task of the connection finds it closed, calls removeClient in
\* its turn and ends.
writeMessagesEnd(c) ==
    /\ ~panicked
    /\ c \in DOMAIN clients
    /\ clients[c].pump = "dead"
    /\ clients' = [clients EXCEPT ![c].pump = "gone"]
    /\ removeClient(c)
    /\ UNCHANGED <<logins, conns, panicked, routed, polled, inserting>>

\* The broadcast of a handler goes on to the next client of its snapshot.
Broadcast(cl, c) ==
    IF cl[c].todo = {}
    THEN {[cl EXCEPT ![c].pump = "run"]}
    ELSE {[cl EXCEPT ![c].pump = "start", ![c].tgt = d, ![c].todo = @ \ {d}] :
             d \in cl[c].todo}

\* The caller of a handler is not the owner of its lobby.
NotOwner(c) == lobbies[clients[c].lobby].owner # clients[c].name

\* StartGameHandler: the owner's start-game-owner event starts the game and
\* stamps the start time under the lobby lock; the events then go out to the
\* clients registered at that moment. Any other sender gets NotOwner and
\* nothing changes.
StartGameHandler(c) ==
    /\ ~panicked
    /\ c \in DOMAIN clients
    /\ clients[c].pump = "run"
    /\ LET l == clients[c].lobby
           res == startGame(lobbies[l])
       IN  IF NotOwner(c)
           THEN UNCHANGED <<lobbies, logins, conns, clients, connection, panicked, polled, inserting>>
           ELSE IF res.panic
           THEN Abort
           ELSE /\ lobbies' = [lobbies EXCEPT
                       ![l] = [res.lobby EXCEPT !.startTime = "now"]]
                /\ clients' \in Broadcast(
                       [clients EXCEPT ![c].todo = lobbies[l].clients], c)
                /\ UNCHANGED <<logins, conns, connection, panicked, polled, inserting>>

\* The handler sends the game-start event to the client it has taken.
HandlerSendStart(c) ==
    /\ ~panicked
    /\ c \in DOMAIN clients
    /\ clients[c].pump = "start"
    /\ LET d == clients[c].tgt
           lobby == lobbies[clients[c].lobby]
       IN  /\ CanSend(d)
           /\ clients' = [Send(d, Event(EventStartGame, <<lobby.startTime, TimeLimit>>))
                             EXCEPT ![c].pump = "problem"]
    /\ UNCHANGED <<lobbies, logins, conns, connection, panicked, routed, polled, inserting>>

\* The handler sends that client its first problem and goes on.
HandlerSendProblem(c) ==
    /\ ~panicked
    /\ c \in DOMAIN clients
    /\ clients[c].pump = "problem"
    /\ LET d == clients[c].tgt IN
       /\ CanSend(d)
       /\ clients' \in Broadcast(Send(d, Event(EventNewProblem, getNewProblem(d))), c)
    /\ UNCHANGED <<lobbies, logins, conns, connection, panicked, routed, polled, inserting>>

\* ---------------------------------------------------------------- dispatch
\* The reply of a handler to its caller: the user's current problem, or the
\* game-over event with the score once the sequence is exhausted.
Reply(c) ==
    LET user == lobbies[clients[c].lobby].userMapping[clients[c].name] IN
    IF user.questionNumber < NumProblems
    THEN Event(EventNewProblem, user.questionNumber)
    ELSE Event(EventGameOver, user.score)

\* GiveAnswerHandler: Problem.CheckAnswer accepts every answer (manager.go
\* 46-48); the user's score and problem index go up by one and the caller is
\* sent the reply.
GiveAnswerHandler(c) ==
    /\ ~panicked
    /\ c \in DOMAIN clients
    /\ clients[c].pump = "run"
    /\ lobbies' = [lobbies EXCEPT
           ![clients[c].lobby].userMapping[clients[c].name] =
               IF @.questionNumber < NumProblems
               THEN [@ EXCEPT !.questionNumber = @ + 1, !.score = @ + 1]
               ELSE @]
    /\ clients' = [clients EXCEPT ![c].pump = "reply"]
    /\ UNCHANGED <<logins, conns, connection, panicked, polled, inserting>>

\* RequestProblemHandler: the caller is sent its current problem again.
RequestProblemHandler(c) ==
    /\ ~panicked
    /\ c \in DOMAIN clients
    /\ clients[c].pump = "run"
    /\ clients' = [clients EXCEPT ![c].pump = "reply"]
    /\ UNCHANGED <<lobbies, logins, conns, connection, panicked, polled, inserting>>

\* The handler sends its reply to the caller's queue and returns.
HandlerReply(c) ==
    /\ ~panicked
    /\ c \in DOMAIN clients
    /\ clients[c].pump = "reply"
    /\ CanSend(c)
    /\ clients' = [Send(c, Reply(c)) EXCEPT ![c].pump = "run"]
    /\ UNCHANGED <<lobbies, logins, conns, connection, panicked, routed, polled, inserting>>

\* manager.go 34-38: the handler registered for each event type.
handlers ==
    (EventStartGameOwner :> "StartGameHandler")
    @@ (EventGiveAnswer :> "GiveAnswerHandler")
    @@ (EventRequestProblem :> "RequestProblemHandler")

\* The event types a client may send: the three known ones and one other.
EventTypes == DOMAIN handlers \cup {"chat"}

\* handler(event, c)
Call(handler, c) ==
    CASE handler = "StartGameHandler" -> StartGameHandler(c)
      [] handler = "GiveAnswerHandler" -> GiveAnswerHandler(c)
      [] handler = "RequestProblemHandler" -> RequestProblemHandler(c)

\* The error handler(event, c) returns.
HandlerError(handler, c) ==
    IF handler = "StartGameHandler" /\ NotOwner(c) THEN ErrNotOwner ELSE Nil

routeEventBad(event, c) ==
    /\ Call("RequestProblemHandler", c)
    /\ routed' = [client |-> c, type |-> event, handler |-> "RequestProblemHandler",
                  herr |-> Nil, err |-> Nil]

\* Manager.routeEvent: the handler registered for the event's type is run and
\* its error returned; an event of any other type is not supported.
routeEvent(event, c) ==
    IF event \in DOMAIN handlers
    THEN LET handler == handlers[event]
             err == HandlerError(handler, c)
         IN  /\ Call(handler, c)
             /\ IF panicked' THEN TRUE
                ELSE routed' = [client |-> c, type |-> event, handler |-> handler,
                                herr |-> err,
                                err |-> IF err # Nil THEN err ELSE Nil]
    ELSE /\ routed' = [client |-> c, type |-> event, handler |-> Nil,
                       herr |-> Nil, err |-> ErrEventNotSupported]
         /\ UNCHANGED <<lobbies, logins, conns, clients, connection, panicked, polled, inserting>>

\* Client.readMessages: the inbound task reads an event of one of the given
\* types from its connection and routes it.
RouteEvent(c, types) ==
    /\ ~panicked
    /\ c \in DOMAIN clients
    /\ clients[c].pump = "run"
    /\ \E event \in types : routeEvent(event, c)

\* --------------------------------------------------------- specifications
\* Registry and login: lobbies are created and users log in concurrently.
NextLogin ==
    \/ createLobbyHandler
    \/ createLobbyInsert
    \/ \E r \in LoginIds : LoginStart(r)
    \/ \E r \in LoginIds : LoginStore(r)
    \/ \E r \in LoginIds : LoginCheck(r)
    \/ \E r \in LoginIds : LoginSetOwner(r)
    \/ \E r \in LoginIds : LoginIssue(r)

SpecLogin == Init /\ [][NextLogin]_vars

\* The state after lobby 1 was created and every login request was answered
\* 200, the first of them, alice's, having made her the owner.
DoneLogin(r, u) ==
    [ pc |-> "done", lobbyId |-> 1, username |-> u, password |-> "pw1",
      userExists |-> FALSE, user |-> NewUser(HashPassword("pw1")),
      status |-> 200, wrote |-> TRUE ]

InitPlay ==
    \E names \in {n \in [LoginIds -> Usernames] : n[1] = "alice"} :
        /\ lobbies = (1 :> [NewLobby EXCEPT
               !.owner = names[1],
               !.userMapping = [u \in {names[r] : r \in LoginIds} |->
                                   NewUser(HashPassword("pw1"))],
               !.otpMapping = names,
               !.otps = [r \in LoginIds |-> TRUE]])
        /\ logins = [r \in LoginIds |->
               [DoneLogin(r, names[r]) EXCEPT
                   !.userExists = \E q \in 1..(r - 1) : names[q] = names[r]]]
        /\ conns = [r \in ConnIds |-> IdleConn]
        /\ clients = <<>>
        /\ connection = [c \in ConnIds |-> "none"]
        /\ panicked = FALSE
        /\ routed = NoRoute
        /\ polled = NoPoll
        /\ inserting = {}

\* Admission and play: connections are admitted with the OTPs issued, the
\* clients' tasks run, the game is started and ended.
NextPlay ==
    \/ EndGame
    \/ Retention
    \/ \E r \in ConnIds : WsStart(r)
    \/ \E r \in ConnIds : WsVerify(r)
    \/ \E r \in ConnIds : WsAdd(r)
    \/ \E r \in ConnIds : WsCatchup(r)
    \/ \E r \in ConnIds : WsLoop(r)
    \/ \E r \in ConnIds : WsSendOther(r)
    \/ \E r \in ConnIds : WsSendSelf(r)
    \/ \E r \in ConnIds : WsSendStart(r)
    \/ \E r \in ConnIds : WsSendProblem(r)
    \/ \E c \in ConnIds : writeMessages(c)
    \/ \E c \in ConnIds : readMessages(c)
    \/ \E c \in ConnIds : writeMessagesEnd(c)
    \/ \E c \in ConnIds : RouteEvent(c, {EventStartGameOwner})
    \/ \E c \in ConnIds : HandlerSendStart(c)
    \/ \E c \in ConnIds : HandlerSendProblem(c)

SpecPlay == InitPlay /\ [][NextPlay]_vars

\* The state after the owner was admitted with the first OTP to the waiting
\* lobby and her connection has written the new-member event of her catch-up.
InitSession ==
    \E names \in {n \in [LoginIds -> Usernames] : n[1] = "alice"} :
        /\ lobbies = (1 :> [NewLobby EXCEPT
               !.owner = names[1],
               !.userMapping = [u \in {names[r] : r \in LoginIds} |->
                                   NewUser(HashPassword("pw1"))],
               !.otpMapping = names,
               !.otps = [r \in LoginIds \ {1} |-> TRUE],
               !.clients = {1}])
        /\ logins = [r \in LoginIds |->
               [DoneLogin(r, names[r]) EXCEPT
                   !.userExists = \E q \in 1..(r - 1) : names[q] = names[r]]]
        /\ conns = [r \in ConnIds |->
               IF r = 1 THEN [IdleConn EXCEPT !.pc = "done", !.lobbyId = 1,
                                              !.otp = 1, !.status = 101]
               ELSE IdleConn]
        /\ clients = (1 :> [name |-> "alice", lobby |-> 1, otp |-> 1,
                            egress |-> <<>>, pump |-> "run", todo |-> {},
                            tgt |-> 0, starts |-> 0])
        /\ connection = [c \in ConnIds |-> IF c = 1 THEN "open" ELSE "none"]
        /\ panicked = FALSE
        /\ routed = NoRoute
        /\ polled = NoPoll
        /\ inserting = {}

\* A session: the clients send events of every type while the other
\* connections are admitted.
NextSession ==
    \/ NextPlay
    \/ \E c \in ConnIds : RouteEvent(c, EventTypes)
    \/ \E c \in ConnIds : HandlerReply(c)

SpecSession == InitSession /\ [][NextSession]_vars

\* Admissions to a lobby that stays waiting, and the clients' tasks.
NextAdmit ==
    \/ \E r \in ConnIds : WsStart(r)
    \/ \E r \in ConnIds : WsVerify(r)
    \/ \E r \in ConnIds : WsAdd(r)
    \/ \E r \in ConnIds : WsCatchup(r)
    \/ \E r \in ConnIds : WsLoop(r)
    \/ \E r \in ConnIds : WsSendOther(r)
    \/ \E r \in ConnIds : WsSendSelf(r)
    \/ \E c \in ConnIds : writeMessages(c)
    \/ \E c \in ConnIds : readMessages(c)
    \/ \E c \in ConnIds : writeMessagesEnd(c)

\* The scheduler runs every goroutine that can take a step: a request
\* handler past its checks, a connection's outbound task. A goroutine
\* waiting to send on a full queue is served when the queue has room
\* (channel senders wait in line), however often others fill it again.
\* Requests and connection failures come when they come.
Fairness ==
    /\ \A r \in ConnIds :
          /\ WF_vars(WsVerify(r)) /\ WF_vars(WsAdd(r)) /\ WF_vars(WsCatchup(r))
          /\ WF_vars(WsLoop(r))
          /\ SF_vars(WsSendOther(r)) /\ SF_vars(WsSendSelf(r))
    /\ \A c \in ConnIds :
          /\ WF_vars(writeMessages(c)) /\ WF_vars(writeMessagesEnd(c))

SpecFair == InitPlay /\ [][NextAdmit]_vars /\ Fairness

\* The registry and the lobby state machine: lobbies are created, logged
\* in to, started and ended, and their status is asked for.
NextGame ==
    \/ NextLogin
    \/ StartGame
    \/ EndGame
    \/ LobbyStatus

SpecGame == Init /\ [][NextGame]_vars

\* The whole program.
Next == NextGame \/ NextSession

Spec == Init /\ [][Next]_vars

\* ------------------------------------------------------------------ claims
\* C1: as long as the process runs, the game state of a lobby only ever moves
\* waiting -> playing -> finished: no step moves it backward, skips playing,
\* or leaves finished.
C1_Monotonic ==
    [][\A l \in DOMAIN lobbies :
          \/ panicked'
          \/ /\ l \in DOMAIN lobbies'
             /\ \/ lobbies'[l].gameState = lobbies[l].gameState
                \/ /\ lobbies[l].gameState = WaitingForPlayers
                   /\ lobbies'[l].gameState = InPlay
                \/ /\ lobbies[l].gameState = InPlay
                   /\ lobbies'[l].gameState = Finished]_vars

C1_Witness ==
    \E l \in DOMAIN lobbies :
        /\ lobbies[l].gameState = Finished
        /\ lobbies[l].clients # {}

\* C2: an invalid startGame()/endGame() request is answered with a
\* recoverable error and never aborts the process.
C2_NeverAborts == panicked = FALSE

\* The requests made with OTP t of lobby l that were upgraded to a connection.
AdmittedWith(l, t) ==
    {r \in ConnIds : conns[r].status = 101 /\ conns[r].lobbyId = l /\ conns[r].otp = t}

\* OTP t was issued in lobby l and has since been verified or has expired.
Spent(l, t) ==
    /\ l \in DOMAIN lobbies
    /\ t \in DOMAIN lobbies[l].otpMapping
    /\ t \notin DOMAIN lobbies[l].otps

\* Request r leaves program counter pc in this step.
ConnLeaves(r, pc) == conns[r].pc = pc /\ conns'[r].pc # pc

C3_AtMostOne ==
    \A l \in LobbyIds, t \in LoginIds : Cardinality(AdmittedWith(l, t)) <= 1

\* C3 as stated: an OTP admits at most one connection, and every admission
\* attempt with a spent OTP is answered 401.
C3_Original ==
    /\ []C3_AtMostOne
    /\ [][\A r \in ConnIds :
             /\ ~panicked'
             /\ (ConnLeaves(r, "idle") \/ ConnLeaves(r, "verify"))
             /\ Spent(conns'[r].lobbyId, conns'[r].otp)
             => \/ conns[r].pc = "idle" /\ conns'[r].pc = "verify"
                \/ conns'[r].status = 401 /\ conns'[r].pc = "done"]_vars

\* C3 (amended): an OTP admits at most one connection, and every admission
\* attempt with a spent OTP is refused: with 410 when the lobby is found
\* finished at the start of the request, with 401 otherwise.
C3_SingleUse ==
    /\ []C3_AtMostOne
    /\ [][\A r \in ConnIds :
             LET l == conns'[r].lobbyId
                 t == conns'[r].otp
             IN  panicked' \/
                 /\ ConnLeaves(r, "idle") /\ Spent(l, t)
                    => \/ conns'[r].pc = "verify"
                       \/ /\ conns'[r].status = 410
                          /\ lobbies[l].gameState = Finished
                 /\ ConnLeaves(r, "verify") /\ Spent(l, t)
                    => conns'[r].status = 401 /\ conns'[r].pc = "done"]_vars

C3_Witness ==
    \E r1, r2 \in ConnIds :
        /\ conns[r1].status = 101
        /\ conns[r2].status = 401
        /\ conns[r2].otp = conns[r1].otp
        /\ conns[r2].lobbyId = conns[r1].lobbyId

\* A step that leaves the clients, their queues and connections, and the
\* state, owner and client set of every lobby as they were.
NoAdmissionEffect ==
    /\ clients' = clients
    /\ connection' = connection
    /\ \A l \in DOMAIN lobbies :
          /\ lobbies'[l].gameState = lobbies[l].gameState
          /\ lobbies'[l].owner = lobbies[l].owner
          /\ lobbies'[l].clients = lobbies[l].clients

Refused(r) == conns[r].status = 0 /\ conns'[r].status \in {401, 410}

\* C4 as stated: a request with a missing OTP, an unknown lobby or an OTP
\* that fails verification is answered 401, a request to a finished lobby is
\* answered 410, and a refused request has no effect.
C4_Original ==
    [][\A r \in ConnIds :
          LET l == conns'[r].lobbyId
              t == conns'[r].otp
          IN  panicked' \/
              /\ ConnLeaves(r, "idle") /\ (t = 0 \/ l \notin DOMAIN lobbies)
                 => conns'[r].status = 401
              /\ ConnLeaves(r, "idle") /\ l \in DOMAIN lobbies
                   /\ lobbies[l].gameState = Finished
                 => conns'[r].status = 410
              /\ ConnLeaves(r, "verify") /\ ~VerifyOTP(lobbies[l].otps, t)
                 => conns'[r].status = 401
              /\ Refused(r) => NoAdmissionEffect]_vars

\* C4 (amended): a request is answered 401 when its OTP is missing;
\* otherwise 401 when its lobby is unknown; otherwise 410 when the lobby is
\* finished; otherwise 401 when the OTP fails verification; and a refused
\* request has no effect.
C4_Refusals ==
    [][\A r \in ConnIds :
          LET l == conns'[r].lobbyId
              t == conns'[r].otp
          IN  panicked' \/
              /\ ConnLeaves(r, "idle")
                 => conns'[r].status =
                       IF t = 0 THEN 401
                       ELSE IF l \notin DOMAIN lobbies THEN 401
                       ELSE IF lobbies[l].gameState = Finished THEN 410
                       ELSE 0
              /\ ConnLeaves(r, "verify") /\ ~VerifyOTP(lobbies[l].otps, t)
                 => conns'[r].status = 401
              /\ Refused(r) => NoAdmissionEffect /\ conns'[r].pc = "done"]_vars

C4_Witness ==
    \E r \in ConnIds :
        /\ conns[r].status = 410
        /\ Spent(conns[r].lobbyId, conns[r].otp)
        /\ lobbies[conns[r].lobbyId].clients # {}

\* C5: no client is added to a lobby's client set while the lobby is
\* finished.
C5_NoAddWhenFinished ==
    [][\A l \in DOMAIN lobbies :
          lobbies[l].gameState = Finished /\ ~panicked'
          => lobbies'[l].clients \subseteq lobbies[l].clients]_vars

\* C6: once a lobby has an owner, no login changes it.
C6_OwnerSetOnce ==
    [][\A l \in DOMAIN lobbies :
          lobbies[l].owner # Nil /\ ~panicked'
          => lobbies'[l].owner = lobbies[l].owner]_vars

LoginLeaves(r, pc) == logins[r].pc = pc /\ logins'[r].pc # pc

\* C7: a login for an unknown lobby is answered 404 and a login for an
\* existing username with a password that does not match the stored hash is
\* answered 401; a login answered 404 or 401 has written nothing: no OTP, no
\* OTP binding, no owner, no user record.
C7_FailedLogin ==
    [][\A r \in LoginIds :
          panicked' \/
          /\ LoginLeaves(r, "idle") /\ logins'[r].lobbyId \notin DOMAIN lobbies
             => logins'[r].status = 404
          /\ LoginLeaves(r, "check") /\ logins[r].userExists
               /\ ~CheckPasswordHash(logins[r].password, logins[r].user.password)
             => logins'[r].status = 401
          /\ logins[r].status = 0 /\ logins'[r].status \in {401, 404}
             => /\ lobbies' = lobbies
                /\ ~logins[r].wrote
                /\ logins'[r].pc = "done"]_vars

C7_Witness ==
    \E r \in LoginIds :
        /\ logins[r].status = 401
        /\ logins[r].userExists
        /\ lobbies[logins[r].lobbyId].owner = Nil

\* The clients ever added to lobby l, and those of them since removed.
Added(l) == {c \in DOMAIN clients : clients[c].lobby = l}

Removed(l) == {c \in Added(l) : connection[c] = "closed"}

\* C8: the client set of a lobby holds exactly the clients added and not
\* since removed; its size is the adds less the removes.
C8_ClientSet ==
    \A l \in DOMAIN lobbies :
        /\ lobbies[l].clients = Added(l) \ Removed(l)
        /\ Cardinality(lobbies[l].clients)
             = Cardinality(Added(l)) - Cardinality(Removed(l))

C8_Witness ==
    \E l \in DOMAIN lobbies :
        /\ Cardinality(Added(l)) = 2
        /\ Cardinality(Removed(l)) = 1
        /\ Cardinality(lobbies[l].clients) = 1

\* C9: the new-member broadcast of an admission to a waiting lobby never
\* waits on a client whose queue is full while another client, whose queue
\* has room, is still owed an event of that broadcast.
C9_NoDelay ==
    \A r \in ConnIds :
        /\ conns[r].pc = "sendOther"
        /\ lobbies[conns[r].lobbyId].gameState = WaitingForPlayers
        /\ ~CanSend(conns[r].cur)
        => ~CanSend(r)

\* The number of entries of log that are x.
Count(log, x) == Cardinality({i \in 1..Len(log) : log[i] = x})

\* C10: an admission that has finished its waiting-lobby catch-up has sent
\* each client already in the lobby exactly one new-member event naming the
\* new client, has sent the new client exactly one new-member event for each
\* of them, and has sent nothing else.
C10_NewMember ==
    [][\A r \in ConnIds :
          conns[r].pc = "loop" /\ conns'[r].pc = "done"
          => LET others == conns[r].snap \ {r}
                 log == conns[r].sent
             IN  /\ \A c \in others :
                       /\ Count(log, <<c, Event(EventNewMember, clients[r].name)>>) = 1
                       /\ Count(log, <<r, Event(EventNewMember, clients[c].name)>>)
                            = Cardinality({d \in others :
                                              clients[d].name = clients[c].name})
                 /\ Len(log) = 2 * Cardinality(others)]_vars

\* The queue of client c gains exactly event in this step and no other
\* client's queue changes.
OnlySent(c, event) ==
    /\ clients'[c].egress = Append(clients[c].egress, event)
    /\ \A d \in DOMAIN clients \ {c} : clients'[d].egress = clients[d].egress

C12_Dispatch ==
    [][routed' # routed /\ ~panicked'
       => LET c == routed'.client
              t == routed'.type
              l == clients[c].lobby
              user == lobbies[l].userMapping[clients[c].name]
              user2 == lobbies'[l].userMapping[clients[c].name]
          IN  /\ t \notin {EventStartGameOwner, EventGiveAnswer, EventRequestProblem}
                 => /\ routed'.err = ErrEventNotSupported
                    /\ routed'.handler = Nil
                    /\ UNCHANGED <<lobbies, clients, connection, conns, logins>>
              /\ t = EventStartGameOwner
                 => /\ routed'.handler = "StartGameHandler"
                    /\ IF lobbies[l].owner = clients[c].name
                       THEN lobbies'[l].gameState = InPlay /\ routed'.herr = Nil
                       ELSE lobbies' = lobbies /\ routed'.herr = ErrNotOwner
              /\ t = EventGiveAnswer
                 => /\ routed'.handler = "GiveAnswerHandler"
                    /\ routed'.herr = Nil
                    /\ user2.score
                         = user.score + (IF user.questionNumber < NumProblems THEN 1 ELSE 0)
                    /\ clients'[c].pump = "reply"
              /\ t = EventRequestProblem
                 => /\ routed'.handler = "RequestProblemHandler"
                    /\ routed'.herr = Nil
                    /\ lobbies' = lobbies
                    /\ clients'[c].pump = "reply"
              /\ routed'.handler # Nil => routed'.err = routed'.herr]_vars

C12_Witness ==
    /\ routed.type = "chat"
    /\ routed.err = ErrEventNotSupported
    /\ connection[routed.client] = "open"
    /\ routed.client \in lobbies[clients[routed.client].lobby].clients
    /\ lobbies[clients[routed.client].lobby].gameState = InPlay

\* C13: a status request for an id in the registry is answered with that
\* lobby's game state; for an id not in the registry it is answered dne when
\* no result record of the id exists and finished when one exists; the
\* request changes no lobby and not the registry.
C13_Status ==
    [][polled' # polled /\ ~panicked'
       => /\ polled'.status =
                IF polled'.id \in DOMAIN lobbies THEN lobbies[polled'.id].gameState
                ELSE IF polled'.record THEN Finished ELSE DNE
          /\ lobbies' = lobbies]_vars

\* Request r is in its range over the clients of its lobby.
InRange(r) ==
    \/ conns[r].pc \in {"sendOther", "sendSelf"}
    \/ conns[r].pc = "loop" /\ conns[r].visited # {}

\* C14: no client is added to or removed from a lobby's client set while a
\* broadcast is ranging over that set: the broadcast reads the set under the
\* lobby lock, which addClient and removeClient take.
C14_Snapshot ==
    [][\A r \in ConnIds :
          InRange(r) /\ ~panicked'
          => lobbies'[conns[r].lobbyId].clients = lobbies[conns[r].lobbyId].clients]_vars

\* This step looks an id up in the registry or begins an assignment into it.
RegistryAccess ==
    \/ \E r \in LoginIds : LoginLeaves(r, "idle")
    \/ \E r \in ConnIds : ConnLeaves(r, "idle") /\ conns'[r].otp # 0
    \/ polled' # polled
    \/ inserting' # inserting /\ inserting \subseteq inserting'

\* C15: createLobby registers a new lobby, waiting, without owner, users or
\* clients, under an id the registry did not hold, and leaves every other
\* lobby as it was; and no lookup by login, admission or lobby-status and no
\* other insert happens while an insert into the registry is under way.
C15_Registry ==
    [][~panicked'
       => /\ \A id \in DOMAIN lobbies' \ DOMAIN lobbies : lobbies'[id] = NewLobby
          /\ DOMAIN lobbies' # DOMAIN lobbies
             => \A id \in DOMAIN lobbies : lobbies'[id] = lobbies[id]
          /\ RegistryAccess => inserting = {}]_vars

\* C16: the start time of a lobby is unset while the lobby is waiting, is
\* set by startGame() in the step to playing and is never changed after
\* that, so a lobby that is playing or finished always has its start time.
C16_StartTime ==
    /\ [](\A l \in DOMAIN lobbies :
             /\ lobbies[l].gameState = WaitingForPlayers => lobbies[l].startTime = Nil
             /\ lobbies[l].gameState \in {InPlay, Finished} => lobbies[l].startTime # Nil)
    /\ [][\A l \in DOMAIN lobbies :
             lobbies[l].startTime # Nil /\ ~panicked'
             => lobbies'[l].startTime = lobbies[l].startTime]_vars

\* C17: under fair scheduling every admission that has passed verification
\* finishes its catch-up sends and returns, also when another client of the
\* lobby disconnects while the admission is sending.
C17_Returns ==
    \A r \in ConnIds :
        conns[r].pc = "add" ~> (conns[r].pc = "done" \/ panicked)

\* C18: the first removeClient(c) of a registered client deletes c from the
\* client set of its lobby and closes c's connection; a further
\* removeClient(c), made when c is no longer registered, changes nothing and
\* closes nothing; either call leaves every other client's membership and
\* connection and the lobby's game state, owner and users as they were.
C18_Idempotent ==
    [][\A c \in DOMAIN clients :
          LET l == clients[c].lobby
              first == clients[c].pump = "run" /\ clients'[c].pump = "dead"
              again == clients[c].pump = "dead" /\ clients'[c].pump = "gone"
          IN  panicked' \/
              /\ first /\ c \in lobbies[l].clients
                 => /\ lobbies'[l].clients = lobbies[l].clients \ {c}
                    /\ connection[c] = "open" /\ connection'[c] = "closed"
              /\ again \/ (first /\ c \notin lobbies[l].clients)
                 => lobbies' = lobbies /\ connection' = connection
              /\ first \/ again
                 => /\ \A d \in ConnIds \ {c} : connection'[d] = connection[d]
                    /\ lobbies'[l].gameState = lobbies[l].gameState
                    /\ lobbies'[l].owner = lobbies[l].owner
                    /\ lobbies'[l].userMapping = lobbies[l].userMapping]_vars

C18_Witness ==
    \E c, d \in DOMAIN clients :
        /\ clients[c].pump = "gone"
        /\ connection[c] = "closed"
        /\ c \notin lobbies[clients[c].lobby].clients
        /\ d \in lobbies[clients[c].lobby].clients
        /\ connection[d] = "open"

\* C19: the password hash stored for a username of a lobby is never
\* replaced, and all logins of that username that were issued an OTP gave
\* the same password.
C19_OnePassword ==
    /\ [][\A l \in DOMAIN lobbies : \A u \in DOMAIN lobbies[l].userMapping :
             ~panicked'
             => lobbies'[l].userMapping[u].password = lobbies[l].userMapping[u].password]_vars
    /\ [](\A r1, r2 \in LoginIds :
             /\ logins[r1].status = 200 /\ logins[r2].status = 200
             /\ logins[r1].lobbyId = logins[r2].lobbyId
             /\ logins[r1].username = logins[r2].username
             => logins[r1].password = logins[r2].password)

\* A start-game broadcast still has client r to serve.
Pending(r) ==
    \E c \in DOMAIN clients :
        \/ r \in clients[c].todo
        \/ clients[c].pump \in {"start", "problem"} /\ clients[c].tgt = r

\* C20: a client registered in a lobby that is in play is sent the
\* start-game event exactly once, by the start-game broadcast or by its
\* admission's catch-up: never twice, and once its admission has returned
\* and no broadcast has it left to serve, never not at all.
C20_StartOnce ==
    \A r \in DOMAIN clients :
        /\ clients[r].starts <= 1
        /\ /\ conns[r].pc = "done"
           /\ r \in lobbies[clients[r].lobby].clients
           /\ lobbies[clients[r].lobby].gameState = InPlay
           /\ ~Pending(r)
           => clients[r].starts = 1
====
